---------------------------- MODULE Spec2Model ----------------------------
(***************************************************************************)
(* Model of notebooks/geodirection.ipynb: the Point constructor, the       *)
(* Location holder (update, direction) and the direction calculator        *)
(* Location._calculate.                                                    *)
(*                                                                         *)
(* Numbers.  The notebook computes in binary floating point.  Here every   *)
(* quantity is a fixed-point integer and every operation that is inexact   *)
(* in floating point (a product, a library function, a unit conversion)    *)
(* rounds its exact result to the nearest representable value, ties to     *)
(* even, as IEEE arithmetic does.  The resolutions are                     *)
(*    angles in radians, sines, cosines, the haversine a : 1/S             *)
(*    angles in degrees (bearing, elevation)             : 1/10^DegDigits  *)
(*    lengths in metres (altitude differences, distance) : 1/10^MetreDigits*)
(* Degrees given to point() are whole degrees, altitudes whole metres.     *)
(* sin, cos and atan2 are computed by CORDIC on a finer internal scale and *)
(* then rounded, which gives the correctly rounded value at resolution 1/S *)
(* for all but a handful of arguments.                                     *)
(***************************************************************************)
EXTENDS Integers, FiniteSets, Sequences, TLC

VARIABLES location, precision, constructed, latest, call, result

vars == <<location, precision, constructed, latest, call, result>>

---------------------------------------------------------------------------
(* Bounds of the model *)

\* precisions passed to Location(...) / _calculate are 0 .. MaxPrecision
MaxPrecision == 2

\* the largest altitude (metres) given to point()
MaxAlt == 430

---------------------------------------------------------------------------
(* Fixed-point resolutions *)

S == 10000

DegDigits == 2

MetreDigits == 1

\* internal resolution of an angle inside sin, cos and atan2 (1/FineScale rad)
FineScale == 100000000

\* internal resolution of a vector component inside sin and cos
CordicShift == 14

NIter == 26

\* round(FineScale * pi)
PiFine == 314159265

\* round(FineScale * atan(2^-i)), i = 0 .. NIter-1
AtanTab ==
  << 78539816, 46364761, 24497866, 12435499, 6241881, 3123983, 1562373,
     781234, 390623, 195312, 97656, 48828, 24414, 12207, 6104, 3052, 1526,
     763, 381, 191, 95, 48, 24, 12, 6, 3 >>

\* round(S * 2^CordicShift / gain), gain = prod sqrt(1 + 4^-i)
CordicX0 == 99492321

---------------------------------------------------------------------------
(* Rounding *)

\* n / d rounded to the nearest integer, ties to even (d > 0)
RoundHalfEven(n, d) ==
  LET q == n \div d
      r == n % d
  IN  IF 2 * r < d THEN q
      ELSE IF 2 * r > d THEN q + 1
      ELSE IF q % 2 = 0 THEN q ELSE q + 1

\* a product of two values of resolution 1/S
Mul(a, b) == RoundHalfEven(a * b, S)

Abs(n) == IF n < 0 THEN -n ELSE n

Max(a, b) == IF a >= b THEN a ELSE b

---------------------------------------------------------------------------
(* math.sin, math.cos, math.atan2, math.sqrt, math.radians, math.degrees *)

RECURSIVE Rotate(_, _, _, _)
Rotate(x, y, z, i) ==
  IF i = NIter THEN <<x, y>>
  ELSE IF z >= 0
       THEN Rotate(x - (y \div 2^i), y + (x \div 2^i), z - AtanTab[i + 1], i + 1)
       ELSE Rotate(x + (y \div 2^i), y - (x \div 2^i), z + AtanTab[i + 1], i + 1)

\* z (fine angle) reduced to (-pi, pi]
ReduceAngle(z) ==
  LET m == z % (2 * PiFine)
  IN  IF m > PiFine THEN m - 2 * PiFine ELSE m

\* <<cos, sin>> of the fine angle z, at resolution 1/S
CosSin(z) ==
  LET r == ReduceAngle(z)
      h == PiFine \div 2
      v == IF r > h THEN Rotate(CordicX0, 0, PiFine - r, 0)
           ELSE IF r < -h THEN Rotate(CordicX0, 0, -PiFine - r, 0)
           ELSE Rotate(CordicX0, 0, r, 0)
      c == IF r > h \/ r < -h THEN -v[1] ELSE v[1]
  IN  <<RoundHalfEven(c, 2^CordicShift), RoundHalfEven(v[2], 2^CordicShift)>>

\* sin and cos take an angle of resolution 1/FineScale
sin(z) == CosSin(z)[2]

cos(z) == CosSin(z)[1]

\* an angle of resolution 1/S on the fine scale (exact)
Fine(a) == a * (FineScale \div S)

RECURSIVE Vector(_, _, _, _)
Vector(x, y, z, i) ==
  IF i = NIter \/ y = 0 THEN z
  ELSE IF y > 0
       THEN Vector(x + (y \div 2^i), y - (x \div 2^i), z + AtanTab[i + 1], i + 1)
       ELSE Vector(x - (y \div 2^i), y + (x \div 2^i), z - AtanTab[i + 1], i + 1)

\* <<x, y>> scaled by a power of two so that 2^26 <= max(|x|,|y|) < 2^27
RECURSIVE Normalise(_, _)
Normalise(x, y) ==
  LET m == Max(Abs(x), Abs(y))
  IN  IF m >= 2^27 THEN Normalise(x \div 2, y \div 2)
      ELSE IF m < 2^26 THEN Normalise(2 * x, 2 * y)
      ELSE <<x, y>>

\* atan2(y, x) in radians at resolution 1/S; y and x share any one resolution.
\* atan2(0, 0) = 0, as in Python.
atan2(y, x) ==
  IF x = 0 /\ y = 0 THEN 0
  ELSE LET n == IF x < 0 THEN Normalise(-x, -y) ELSE Normalise(x, y)
           z == Vector(n[1], n[2], 0, 0)
           w == IF x >= 0 THEN z
                ELSE IF y >= 0 THEN z + PiFine ELSE z - PiFine
       IN  RoundHalfEven(w, FineScale \div S)

\* the largest r with r * r <= n
RECURSIVE ISqrt(_, _, _)
ISqrt(n, lo, hi) ==
  IF lo >= hi THEN lo
  ELSE LET mid == (lo + hi + 1) \div 2
       IN  IF mid * mid <= n THEN ISqrt(n, mid, hi) ELSE ISqrt(n, lo, mid - 1)

\* sqrt of a value a >= 0 of resolution 1/S, rounded to nearest
sqrt(a) ==
  LET n == a * S
      r == ISqrt(n, 0, 2 * S)
  IN  IF n - r * r <= r THEN r ELSE r + 1

\* whole degrees -> radians at resolution 1/S
radians(d) == RoundHalfEven(d * 314159, 1800)

\* radians at resolution 1/S -> degrees at resolution 1/10^DegDigits
\* (180/pi * 10^DegDigits / S = 0.0057296 * 100 = 3581/6250)
degrees(x) == RoundHalfEven(x * 3581, 6250)

\* Python's round(v, ndigits) for a value v carrying `digits` decimals;
\* the result carries `digits` decimals too
round(v, digits, ndigits) ==
  IF ndigits >= digits THEN v
  ELSE LET q == 10^(digits - ndigits) IN RoundHalfEven(v, q) * q

---------------------------------------------------------------------------
(* Point, point(), Direction *)

Fields == {"lat", "lon", "alt"}

\* Point = namedtuple('Point', ['lat', 'lon', 'alt']); lat, lon in radians
Point(lat, lon, alt) == [lat |-> lat, lon |-> lon, alt |-> alt]

point(lat, lon, alt) == Point(radians(lat), radians(lon), alt)

Direction(bearing, elevation, distance) ==
  [kind |-> "Direction", bearing |-> bearing, elevation |-> elevation,
   distance |-> distance]

\* the two errors the code raises, both of them ValueError
ValueError(msg, got) == [kind |-> "ValueError", msg |-> msg, got |-> got]

\* the return value of a method that returns nothing
None == [kind |-> "None"]

---------------------------------------------------------------------------
(* Location.update *)

DefaultPrecision == 2

\* variant of update with a seeded fault: all three fields are accepted
update_accepts_all_three(self_location, kwargs) ==
  LET upd == [k \in {k \in DOMAIN kwargs : k \in Fields} |-> kwargs[k]]
      n   == Cardinality(DOMAIN upd)
  IN  IF ~(n > 0 /\ n <= 3)
      THEN [location |-> self_location,
            result   |-> ValueError("location update", DOMAIN kwargs)]
      ELSE [location |-> [f \in Fields |-> IF f \in DOMAIN upd THEN upd[f]
                                           ELSE self_location[f]],
            result   |-> None]

\* variant of update with a seeded fault: lat and lon are converted like point()
update_converts_degrees(self_location, kwargs) ==
  LET upd == [k \in {k \in DOMAIN kwargs : k \in Fields} |-> kwargs[k]]
      n   == Cardinality(DOMAIN upd)
  IN  IF ~(n > 0 /\ n < 3)
      THEN [location |-> self_location,
            result   |-> ValueError("location update", DOMAIN kwargs)]
      ELSE [location |-> [f \in Fields |->
                            IF f \in DOMAIN upd
                            THEN IF f = "alt" THEN upd[f] ELSE radians(upd[f])
                            ELSE self_location[f]],
            result   |-> None]

\* variant of update with a seeded fault: the fields are replaced before the
\* size test
update_replaces_before_check(self_location, kwargs) ==
  LET upd == [k \in {k \in DOMAIN kwargs : k \in Fields} |-> kwargs[k]]
      n   == Cardinality(DOMAIN upd)
      new == [f \in Fields |-> IF f \in DOMAIN upd THEN upd[f]
                               ELSE self_location[f]]
  IN  IF ~(n > 0 /\ n < 3)
      THEN [location |-> new,
            result   |-> ValueError("location update", DOMAIN kwargs)]
      ELSE [location |-> new, result |-> None]

\* variant of update with a seeded fault: the size test counts every keyword
update_counts_all_keys(self_location, kwargs) ==
  LET upd == [k \in {k \in DOMAIN kwargs : k \in Fields} |-> kwargs[k]]
      n   == Cardinality(DOMAIN kwargs)
  IN  IF ~(n > 0 /\ n < 3)
      THEN [location |-> self_location,
            result   |-> ValueError("location update", DOMAIN kwargs)]
      ELSE [location |-> [f \in Fields |-> IF f \in DOMAIN upd THEN upd[f]
                                           ELSE self_location[f]],
            result   |-> None]

\* Location.update(**kwargs): the new self.location and what the call returns.
\* The function returns nothing on success and raises ValueError, before
\* self.location is assigned, when the recognised keywords are none or all.
update(self_location, kwargs) ==
  LET upd == [k \in {k \in DOMAIN kwargs : k \in Fields} |-> kwargs[k]]
      n   == Cardinality(DOMAIN upd)
  IN  IF ~(n > 0 /\ n < 3)
      THEN [location |-> self_location,
            result   |-> ValueError("location update", DOMAIN kwargs)]
      ELSE [location |-> [f \in Fields |-> IF f \in DOMAIN upd THEN upd[f]
                                           ELSE self_location[f]],
            result   |-> None]

---------------------------------------------------------------------------
(* Location._calculate, statement by statement *)

\* Radius of the Earth, metres
R == 6371000

\* variant of haversine_a with a seeded fault: .alt read in place of .lon
haversine_a_altitude_slip(base, remote) ==
  LET delta_lat == remote.lat - base.lat
      delta_lon == remote.lon - base.alt
      sin_half_delta_lat == sin(Fine(delta_lat) \div 2)
      sin_half_delta_lon == sin(Fine(delta_lon) \div 2)
  IN  Mul(sin_half_delta_lat, sin_half_delta_lat)
      + Mul(Mul(cos(Fine(base.lat)), cos(Fine(remote.lat))),
            Mul(sin_half_delta_lon, sin_half_delta_lon))

\* a := sin(delta_lat / 2)**2
\*      + cos(base.lat) * cos(remote.lat) * sin(delta_lon / 2)**2
\* (delta / 2 is exact in binary floating point, and is exact here on the
\* fine scale)
haversine_a(base, remote) ==
  LET delta_lat == remote.lat - base.lat
      delta_lon == remote.lon - base.lon
      sin_half_delta_lat == sin(Fine(delta_lat) \div 2)
      sin_half_delta_lon == sin(Fine(delta_lon) \div 2)
  IN  Mul(sin_half_delta_lat, sin_half_delta_lat)
      + Mul(Mul(cos(Fine(base.lat)), cos(Fine(remote.lat))),
            Mul(sin_half_delta_lon, sin_half_delta_lon))

\* variant of distance with a seeded fault: the arguments of atan2 swapped
distance_swapped_atan2(a) ==
  (R \div 1000) * (2 * atan2(sqrt(S - a), sqrt(a)))

\* distance = R * (2 * atan2(sqrt(a), sqrt(1 - a))), for 0 <= a <= 1.
\* R * c metres is (R / 10^3) * c tenths of a metre, c of resolution 1/S.
distance(a) ==
  (R \div 1000) * (2 * atan2(sqrt(a), sqrt(S - a)))

\* angle_of_elevation = degrees(atan2(remote.alt - base.alt, distance))
angle_of_elevation(base, remote, dist) ==
  degrees(atan2((remote.alt - base.alt) * 10^MetreDigits, dist))

\* variant of bearing with a seeded fault: the sign inside x
bearing_sign_slip(base, remote) ==
  LET delta_lon == remote.lon - base.lon
      cs_base   == CosSin(Fine(base.lat))
      cs_remote == CosSin(Fine(remote.lat))
      cs_delta  == CosSin(Fine(delta_lon))
      y == Mul(cs_delta[2], cs_remote[1])
      x == Mul(cs_base[1], cs_remote[2])
           + Mul(Mul(cs_base[2], cs_remote[1]), cs_delta[1])
  IN  (degrees(atan2(y, x)) + 360 * 10^DegDigits) % (360 * 10^DegDigits)

\* y = sin(delta_lon) * cos(remote.lat)
\* x = cos(base.lat) * sin(remote.lat)
\*     - (sin(base.lat) * cos(remote.lat) * cos(delta_lon))
\* bearing = (degrees(atan2(y, x)) + 360) % 360
bearing(base, remote) ==
  LET delta_lon == remote.lon - base.lon
      cs_base   == CosSin(Fine(base.lat))
      cs_remote == CosSin(Fine(remote.lat))
      cs_delta  == CosSin(Fine(delta_lon))
      y == Mul(cs_delta[2], cs_remote[1])
      x == Mul(cs_base[1], cs_remote[2])
           - Mul(Mul(cs_base[2], cs_remote[1]), cs_delta[1])
  IN  (degrees(atan2(y, x)) + 360 * 10^DegDigits) % (360 * 10^DegDigits)

\* Location._calculate(base, remote, precision).  math.sqrt raises
\* ValueError("math domain error") for a negative argument: sqrt(1 - a), a > 1.
_calculate(base, remote, prec) ==
  LET a == haversine_a(base, remote)
  IN  IF S - a < 0
      THEN ValueError("math domain error", {})
      ELSE LET dist == distance(a)
           IN  Direction(round(bearing(base, remote), DegDigits, prec),
                         round(angle_of_elevation(base, remote, dist),
                               DegDigits, prec),
                         round(dist, MetreDigits, prec))

\* variant of direction with a seeded fault: self.precision is not passed on
direction_default_precision(self_location, self_precision, remote) ==
  _calculate(self_location, remote, DefaultPrecision)

\* Location.direction(remote)
direction(self_location, self_precision, remote) ==
  _calculate(self_location, remote, self_precision)

---------------------------------------------------------------------------
(* Inputs *)

\* <<latitude, longitude>> in whole degrees given to point(): the equator,
\* a pole, the date line, a pair of antipodes, a far northern point
Coordinates ==
  { <<0, 0>>, <<80, -1>>, <<12, -180>>, <<-12, 0>>, <<90, 0>>, <<90, 180>>,
    <<0, 180>>, <<0, -180>>, <<-12, -180>>, <<12, 0>>, <<45, 90>> }

\* altitudes in metres
AltVals == {-5, 0, MaxAlt}

Points == {point(c[1], c[2], al) : c \in Coordinates, al \in AltVals}

\* the points a Location is constructed with
HolderPoints == {point(c[1], c[2], al) : c \in {<<0, 0>>, <<80, -1>>},
                                         al \in {0, MaxAlt}}

\* the points given to Location.direction
RemotePoints == {point(80, -1, 0), point(0, 0, 0), point(-12, 0, -5)}

Precisions == 0 .. MaxPrecision

\* keyword names given to update(); "spd" is not a field of Point
Keys == {"lat", "lon", "alt", "spd"}

\* values given to update()
UpdateVals == {0, 5236}

Kwargs == UNION {[K -> UpdateVals] : K \in SUBSET Keys}

NoPoint == Point(0, 0, 0)

\* the last call: its name, its arguments and the holder before it
Call(op, kwargs, base, remote, prec, before) ==
  [op |-> op, kwargs |-> kwargs, base |-> base, remote |-> remote,
   precision |-> prec, before |-> before]

---------------------------------------------------------------------------
(* The holder: Location(point(..), precision), update, direction.          *)
(* constructed and latest are history: the precision given to __init__,    *)
(* and per field the value of the last successful update (or of __init__). *)

Init ==
  /\ location \in HolderPoints
  /\ precision \in Precisions
  /\ constructed = [precision |-> precision]
  /\ latest = location
  /\ call = Call("__init__", <<>>, NoPoint, NoPoint, precision, location)
  /\ result = None

Update(kwargs) ==
  LET r == update(location, kwargs)
  IN  /\ location' = r.location
      /\ result' = r.result
      /\ call' = Call("update", kwargs, NoPoint, NoPoint, precision, location)
      /\ latest' = IF r.result.kind = "None"
                   THEN [f \in Fields |-> IF f \in DOMAIN kwargs THEN kwargs[f]
                                          ELSE latest[f]]
                   ELSE latest
      /\ UNCHANGED <<precision, constructed>>

DirectionCall(remote) ==
  /\ result' = direction(location, precision, remote)
  /\ call' = Call("direction", <<>>, location, remote, precision, location)
  /\ UNCHANGED <<location, precision, constructed, latest>>

Next ==
  \/ \E kwargs \in Kwargs : Update(kwargs)
  \/ \E remote \in RemotePoints : DirectionCall(remote)

Spec == Init /\ [][Next]_vars

---------------------------------------------------------------------------
(* The calculator: Location._calculate(base, remote, precision) called     *)
(* directly, and through Location(base, precision).direction(remote)       *)

InitCalc ==
  /\ location \in Points
  /\ precision \in Precisions
  /\ constructed = [precision |-> precision]
  /\ latest = location
  /\ \E remote \in Points :
       call = Call("pending", <<>>, location, remote, precision, location)
  /\ result = None

Calculate ==
  /\ call.op = "pending"
  /\ result' = _calculate(call.base, call.remote, call.precision)
  /\ call' = [call EXCEPT !.op = "_calculate"]
  /\ UNCHANGED <<location, precision, constructed, latest>>

DirectionOfPending ==
  /\ call.op = "pending"
  /\ DirectionCall(call.remote)

NextCalc ==
  \/ Calculate
  \/ DirectionOfPending

SpecCalc == InitCalc /\ [][NextCalc]_vars

---------------------------------------------------------------------------
(* Properties *)

FullCircle == 360 * 10^DegDigits

\* the keywords of the last update call that name a field of Point
Recognised == DOMAIN call.kwargs \cap Fields

UpdateFailed == result.kind = "ValueError" /\ result.msg = "location update"

SameLatLon(p, q) == p.lat = q.lat /\ p.lon = q.lon

Calculated == call.op \in {"_calculate", "direction"}

\* C1: update raises its error when the keyword set is empty or is all of
\* lat, lon, alt, and succeeds when it is a subset of them of size 1 or 2,
\* whatever the holder's state.
C1_UpdateValidation ==
  (call.op = "update" /\ DOMAIN call.kwargs \subseteq Fields) =>
    LET n == Cardinality(DOMAIN call.kwargs)
    IN  /\ (n = 0 \/ n = 3) => UpdateFailed /\ result.got = DOMAIN call.kwargs
        /\ (n = 1 \/ n = 2) => result = None

\* C1 happens: all three fields are refused on a holder that an earlier
\* update has already changed
C1_Witness ==
  /\ call.op = "update"
  /\ DOMAIN call.kwargs = Fields
  /\ UpdateFailed
  /\ call.before \notin HolderPoints

\* C2: after a successful update every named field holds the supplied value
\* as given, every other field of the Point its former value, and the
\* precision is unchanged.
C2_UpdateFrame ==
  (call.op = "update" /\ result = None) =>
    /\ \A f \in Fields :
         location[f] = IF f \in DOMAIN call.kwargs THEN call.kwargs[f]
                       ELSE call.before[f]
    /\ precision = call.precision

\* C2 happens: lat alone is set to a value that a conversion to radians
\* would change, on a Point whose lon and alt are not zero
C2_Witness ==
  /\ call.op = "update"
  /\ result = None
  /\ DOMAIN call.kwargs = {"lat"}
  /\ call.kwargs["lat"] # radians(call.kwargs["lat"])
  /\ location.lat # call.before.lat
  /\ location.lon # 0
  /\ location.alt # 0

\* C3: direction(remote) returns what the calculator returns for the Point
\* made of the latest successfully supplied value of each field, remote and
\* the precision given at construction; the call changes neither the held
\* Point nor the precision.
C3_DirectionDelegates ==
  /\ location = latest
  /\ precision = constructed.precision
  /\ call.op = "direction" =>
       /\ result = _calculate(latest, call.remote, constructed.precision)
       /\ location = call.before
       /\ precision = call.precision

\* C3 happens: a direction is returned by a holder whose Point is no longer
\* the one it was constructed with, at a precision other than the default
C3_Witness ==
  /\ call.op = "direction"
  /\ result.kind = "Direction"
  /\ location \notin HolderPoints
  /\ precision # DefaultPrecision
  /\ result.distance # 0

\* C4: the bearing the calculator returns, after normalisation and rounding,
\* is at least 0 and less than 360.
C4_BearingRange ==
  (Calculated /\ result.kind = "Direction") =>
    (0 <= result.bearing /\ result.bearing < FullCircle)

\* C5 as stated: the distance returned is never negative, and is 0 exactly
\* when base and remote have the same latitude and the same longitude.
C5_DistanceZeroIff ==
  (Calculated /\ result.kind = "Direction") =>
    /\ result.distance >= 0
    /\ (result.distance = 0) <=> SameLatLon(call.base, call.remote)

\* C5 amended: the calculator returns a Direction whenever base and remote
\* have the same latitude and longitude, and its distance is then 0; the
\* distance of any Direction returned is never negative.
C5_DistanceNonNegative ==
  Calculated =>
    /\ result.kind = "Direction" => result.distance >= 0
    /\ SameLatLon(call.base, call.remote) =>
         (result.kind = "Direction" /\ result.distance = 0)

\* C5 happens: same latitude and longitude, different altitudes, distance 0;
\* and elsewhere a positive distance
C5_Witness ==
  /\ Calculated
  /\ SameLatLon(call.base, call.remote)
  /\ call.base.lat # 0
  /\ call.base.alt # call.remote.alt
  /\ result.kind = "Direction"
  /\ result.distance = 0

\* C6: for every Point P and precision the calculator applied to (P, P)
\* returns Direction(0, 0, 0), called directly or as Location(P).direction(P).
C6_SelfDirection ==
  (Calculated /\ call.base = call.remote) => result = Direction(0, 0, 0)

\* C6 happens: Location(P).direction(P) for a P off the equator, off the
\* prime meridian and off the ground
C6_Witness ==
  /\ call.op = "direction"
  /\ call.base = call.remote
  /\ location = call.remote
  /\ location.lat # 0 /\ location.lon # 0 /\ location.alt # 0
  /\ result = Direction(0, 0, 0)

\* the same call with both altitudes set to zero
AtZeroAltitude ==
  _calculate([call.base EXCEPT !.alt = 0], [call.remote EXCEPT !.alt = 0],
             call.precision)

\* C7: bearing and distance do not depend on the altitudes: a call returns
\* the bearing and distance of the call with the same latitudes, longitudes
\* and precision and both altitudes zero.
C7_AltitudeIndependent ==
  Calculated =>
    /\ result.kind = AtZeroAltitude.kind
    /\ result.kind = "Direction" =>
         /\ result.bearing = AtZeroAltitude.bearing
         /\ result.distance = AtZeroAltitude.distance

\* C7 happens: base and remote at different non-zero altitudes, apart, and
\* an elevation that differs from the one at zero altitude
C7_Witness ==
  /\ Calculated
  /\ result.kind = "Direction"
  /\ call.base.alt # 0 /\ call.remote.alt # 0
  /\ call.base.alt # call.remote.alt
  /\ result.distance > 0
  /\ result.bearing > 0
  /\ result.elevation # AtZeroAltitude.elevation

\* C8: the calculator, and so direction, returns a Direction and raises no
\* error for every base, remote and precision.
C8_CalculatorNeverRaises ==
  Calculated => result.kind = "Direction"

\* C9: an update that fails leaves the held Point and the precision as they
\* were before the call.
C9_FailedUpdateNoEffect ==
  (call.op = "update" /\ UpdateFailed) =>
    /\ location = call.before
    /\ precision = call.precision
    /\ latest = call.before

\* C9 happens: an update naming all three fields, each with a value other
\* than the one held, fails
C9_Witness ==
  /\ call.op = "update"
  /\ UpdateFailed
  /\ Recognised = Fields
  /\ \A f \in Fields : call.kwargs[f] # call.before[f]

\* C10: keywords other than lat, lon, alt are dropped before the size test:
\* with 1 or 2 recognised keywords the update succeeds and changes only the
\* recognised fields; with none or all three recognised it fails.
C10_UnrecognisedDropped ==
  (call.op = "update" /\ ~(DOMAIN call.kwargs \subseteq Fields)) =>
    LET n == Cardinality(Recognised)
    IN  /\ (n = 1 \/ n = 2) =>
             /\ result = None
             /\ \A f \in Fields :
                  location[f] = IF f \in Recognised THEN call.kwargs[f]
                                ELSE call.before[f]
        /\ (n = 0 \/ n = 3) => (UpdateFailed /\ location = call.before)

\* C10 happens: two recognised keywords and an unrecognised one, three
\* keywords in all, and the update succeeds and changes the Point
C10_Witness ==
  /\ call.op = "update"
  /\ Cardinality(DOMAIN call.kwargs) = 3
  /\ Cardinality(Recognised) = 2
  /\ result = None
  /\ location # call.before

====
